---- MODULE Spec2Model ----
(***************************************************************************)
(* vault: a single-file container of named files (src/src/main.rs).        *)
(*                                                                         *)
(* The module models                                                       *)
(*   - struct File and struct FileSystem with file_exists, add_file,       *)
(*     get_file and delete_file,                                           *)
(*   - get_fs / save_fs, which read and write vault.vault through the      *)
(*     MessagePack encoding of rmp_serde.                                  *)
(*                                                                         *)
(*   - fn main: the commands add, export, cat, rm, ls, init and help.      *)
(*                                                                         *)
(* Three specifications share the variables:                               *)
(*   Spec        drives the FileSystem methods from the empty FileSystem   *)
(*               with arbitrary arguments;                                 *)
(*   SpecPersist holds any FileSystem of the bounded size and calls        *)
(*               save_fs and get_fs;                                       *)
(*   SpecCli     runs two invocations of the command, step by step and     *)
(*               interleaved, against one working directory.               *)
(***************************************************************************)
EXTENDS Integers, Sequences, FiniteSets, TLC

(***************************************************************************)
(* Bound of the model: the number of files a FileSystem under test holds.  *)
(***************************************************************************)
MaxFiles == 3

(***************************************************************************)
(* Inputs: file names, extensions and content bytes.  Two names and two    *)
(* extensions give keys that share only the name, only the extension, or   *)
(* nothing.  127 and 128 are the two sides of the one-byte integer limit   *)
(* of the encoding.                                                        *)
(***************************************************************************)
Names == {"a", "b"}
Extensions == {"txt", "md"}
ByteVals == {127, 128}

SeqsUpTo(S, n) == UNION {[1..k -> S] : k \in 0..n}

\* The contents of the files under test: empty, or one byte.
Contents == SeqsUpTo(ByteVals, 1)

\* struct File and File::new
File_new(name, extension, content) ==
    [name |-> name, extension |-> extension, content |-> content]

Files == {File_new(n, e, c) : n \in Names, e \in Extensions, c \in Contents}

\* FileSystem::new
FileSystem_new == << >>

\* Result values of the methods; a panic unwinds out of the method.
Ok(v) == [tag |-> "Ok", val |-> v]
Err(m) == [tag |-> "Err", val |-> m]
Panic == [tag |-> "panic", val |-> "called Result::unwrap() on an Err value"]
Unit == "()"

VARIABLES
    files,   \* FileSystem.files of the FileSystem under test
    call,    \* the last method call and its arguments
    ret,     \* what the last call returned
    old,     \* FileSystem.files when the last call was made
    disk,    \* the file vault.vault: NoFile or its bytes
    pc,      \* per invocation of the command: where main is
    argv,    \* per invocation: its command line
    fs,      \* per invocation: the local FileSystem fs of main
    todo,    \* per invocation: the paths the add command has yet to add
    out,     \* per invocation: the lines printed so far
    status,  \* per invocation: the exit status, Running before the exit
    io,      \* per invocation: its accesses to vault.vault, in order
    epoch,   \* the number of writes of vault.vault so far
    wd,      \* the vault-<name>.<ext> files written by export
    shell    \* the session of a user: the command lines yet to run, what the
             \* ones run so far left, and the bytes of ./report.pdf

callerVars == <<files, call, ret, old>>
cliVars == <<pc, argv, fs, todo, out, status, io, epoch, wd, shell>>
vars == <<files, call, ret, old, disk, pc, argv, fs, todo, out, status, io,
          epoch, wd, shell>>

\* The invocations of the command, and the state before any of them started.
Procs == {1, 2}

Running == -1
NoArg == "<none>"
NoArgv == [cmd |-> NoArg, path |-> NoArg, force |-> FALSE, empty |-> FALSE]

NoShell == [todo |-> << >>, done |-> << >>, report |-> << >>]

NoInvocation ==
    /\ shell = NoShell
    /\ pc = [p \in Procs |-> "idle"]
    /\ argv = [p \in Procs |-> NoArgv]
    /\ fs = [p \in Procs |-> FileSystem_new]
    /\ todo = [p \in Procs |-> << >>]
    /\ out = [p \in Procs |-> << >>]
    /\ status = [p \in Procs |-> Running]
    /\ io = [p \in Procs |-> << >>]
    /\ epoch = 0
    /\ wd = {}

(***************************************************************************)
(* impl FileSystem                                                         *)
(***************************************************************************)
file_exists(self, file_name, file_ext) ==
    \E i \in DOMAIN self : self[i].name = file_name /\ self[i].extension = file_ext

\* The closure with its test inverted: it keeps the file with the key.
retain_pred_inverted(file, file_name, file_ext) ==
    file.name = file_name /\ file.extension = file_ext

\* The closure handed to Vec::retain.
retain_pred(file, file_name, file_ext) ==
    file.name # file_name /\ file.extension # file_ext

retain(self, file_name, file_ext) ==
    SelectSeq(self, LAMBDA file : retain_pred(file, file_name, file_ext))

\* delete_file without the file_exists guard around retain.
delete_file_unguarded(self, file_name, file_ext) ==
    [ret |-> IF file_exists(self, file_name, file_ext)
             THEN Ok(Unit) ELSE Err("file does not exist"),
     files |-> retain(self, file_name, file_ext)]

\* Returns the result and the files the FileSystem holds afterwards.
delete_file(self, file_name, file_ext) ==
    IF file_exists(self, file_name, file_ext)
    THEN [ret |-> Ok(Unit), files |-> retain(self, file_name, file_ext)]
    ELSE [ret |-> Err("file does not exist"), files |-> self]

\* add_file that pushes without looking for the key.
add_file_push_always(self, file, overwrite) ==
    [ret |-> Ok(Unit), files |-> Append(self, file)]

\* add_file that treats every call as an overwriting one.
add_file_always_overwrite(self, file, overwrite) ==
    IF file_exists(self, file.name, file.extension)
    THEN [ret |-> Ok(Unit),
          files |-> Append(delete_file(self, file.name, file.extension).files, file)]
    ELSE [ret |-> Ok(Unit), files |-> Append(self, file)]

\* add_file that overwrites in the old slot instead of remove-then-push.
add_file_in_place(self, file, overwrite) ==
    IF file_exists(self, file.name, file.extension) /\ ~overwrite
    THEN [ret |-> Err("file already exists"), files |-> self]
    ELSE IF file_exists(self, file.name, file.extension)
         THEN [ret |-> Ok(Unit),
               files |-> [i \in DOMAIN self |->
                            IF self[i].name = file.name
                               /\ self[i].extension = file.extension
                            THEN file ELSE self[i]]]
         ELSE [ret |-> Ok(Unit), files |-> Append(self, file)]

add_file(self, file, overwrite) ==
    IF file_exists(self, file.name, file.extension) /\ ~overwrite
    THEN [ret |-> Err("file already exists"), files |-> self]
    ELSE IF overwrite
         THEN LET d == delete_file(self, file.name, file.extension)
              IN  IF d.ret.tag = "Ok"
                  THEN [ret |-> Ok(Unit), files |-> Append(d.files, file)]
                  ELSE [ret |-> Panic, files |-> d.files]   \* .unwrap()
         ELSE [ret |-> Ok(Unit), files |-> Append(self, file)]

get_file(self, file_name, file_ext) ==
    IF file_exists(self, file_name, file_ext)
    THEN LET i == CHOOSE k \in DOMAIN self :
                     /\ self[k].name = file_name /\ self[k].extension = file_ext
                     /\ \A j \in 1..(k - 1) :
                          ~(self[j].name = file_name /\ self[j].extension = file_ext)
         IN  Ok(self[i])
    ELSE Err("file does not exist")

(***************************************************************************)
(* rmp_serde::to_vec: the MessagePack bytes of a FileSystem.  Structs are   *)
(* written as arrays of their fields in declaration order, a String as a   *)
(* str, and content (Vec<u8> without serde_bytes) as an array of integers. *)
(***************************************************************************)
\* The UTF-8 bytes of the strings of the model.
Utf8(s) ==
    CASE s = "a" -> <<97>>
      [] s = "b" -> <<98>>
      [] s = "txt" -> <<116, 120, 116>>
      [] s = "md" -> <<109, 100>>
      [] s = "hello" -> <<104, 101, 108, 108, 111>>
      [] s = "report" -> <<114, 101, 112, 111, 114, 116>>
      [] s = "pdf" -> <<112, 100, 102>>

Strings == Names \cup Extensions \cup {"hello", "report", "pdf"}

RECURSIVE Concat(_)
Concat(ss) == IF ss = << >> THEN << >> ELSE Head(ss) \o Concat(Tail(ss))

\* fixarray 0x90 + n up to 15 elements, array 16 (0xdc) above.
write_array_len(n) ==
    IF n < 16 THEN <<144 + n>> ELSE <<220, n \div 256, n % 256>>

\* fixstr 0xa0 + len up to 31 bytes, str 8 (0xd9) above.
write_str(s) ==
    LET b == Utf8(s)
    IN  (IF Len(b) < 32 THEN <<160 + Len(b)>> ELSE <<217, Len(b)>>) \o b

\* write_u8 that writes every value as one byte.
write_u8_one_byte(v) == <<v>>

\* positive fixint up to 127, uint 8 (0xcc) above.
write_u8(v) == IF v < 128 THEN <<v>> ELSE <<204, v>>

write_content(content) ==
    write_array_len(Len(content))
        \o Concat([i \in DOMAIN content |-> write_u8(content[i])])

write_File(file) ==
    write_array_len(3) \o write_str(file.name) \o write_str(file.extension)
        \o write_content(file.content)

to_vec(val) ==
    write_array_len(1) \o write_array_len(Len(val))
        \o Concat([i \in DOMAIN val |-> write_File(val[i])])

(***************************************************************************)
(* rmp_serde::from_slice::<FileSystem>.  Each reader takes the bytes and   *)
(* the position to read at and returns [ok, val, pos].  The readers take   *)
(* the formats to_vec writes; a struct written as a map and the wider      *)
(* integer and length formats are rejected here.  A str whose bytes are    *)
(* not one of Strings is outside the model and rejected too.  Bytes after  *)
(* the value are not looked at.                                            *)
(***************************************************************************)
Fail == [ok |-> FALSE, val |-> << >>, pos |-> 0]
Read(v, p) == [ok |-> TRUE, val |-> v, pos |-> p]

read_array_len(b, pos) ==
    IF pos > Len(b) THEN Fail
    ELSE IF b[pos] >= 144 /\ b[pos] <= 159 THEN Read(b[pos] - 144, pos + 1)
    ELSE IF b[pos] = 220 /\ pos + 2 <= Len(b)
         THEN Read(b[pos + 1] * 256 + b[pos + 2], pos + 3)
    ELSE Fail

read_str(b, pos) ==
    LET hdr == IF pos > Len(b) THEN Fail
               ELSE IF b[pos] >= 160 /\ b[pos] <= 191
                    THEN Read(b[pos] - 160, pos + 1)
               ELSE IF b[pos] = 217 /\ pos + 1 <= Len(b)
                    THEN Read(b[pos + 1], pos + 2)
               ELSE Fail
    IN  IF ~hdr.ok \/ hdr.pos + hdr.val - 1 > Len(b) THEN Fail
        ELSE LET raw == SubSeq(b, hdr.pos, hdr.pos + hdr.val - 1)
             IN  IF \E s \in Strings : Utf8(s) = raw
                 THEN Read(CHOOSE s \in Strings : Utf8(s) = raw,
                           hdr.pos + hdr.val)
                 ELSE Fail

read_u8(b, pos) ==
    IF pos > Len(b) THEN Fail
    ELSE IF b[pos] < 128 THEN Read(b[pos], pos + 1)
    ELSE IF b[pos] = 204 /\ pos + 1 <= Len(b) THEN Read(b[pos + 1], pos + 2)
    ELSE Fail

\* n more elements of a Vec<u8>, appended to acc.
RECURSIVE read_u8s(_, _, _, _)
read_u8s(b, pos, n, acc) ==
    IF n = 0 THEN Read(acc, pos)
    ELSE LET e == read_u8(b, pos)
         IN  IF e.ok THEN read_u8s(b, e.pos, n - 1, Append(acc, e.val))
             ELSE Fail

read_content(b, pos) ==
    LET n == read_array_len(b, pos)
    IN  IF n.ok THEN read_u8s(b, n.pos, n.val, << >>) ELSE Fail

read_File(b, pos) ==
    LET n == read_array_len(b, pos)
    IN  IF ~n.ok \/ n.val # 3 THEN Fail
        ELSE LET name == read_str(b, n.pos)
             IN  IF ~name.ok THEN Fail
                 ELSE LET ext == read_str(b, name.pos)
                      IN  IF ~ext.ok THEN Fail
                          ELSE LET c == read_content(b, ext.pos)
                               IN  IF ~c.ok THEN Fail
                                   ELSE Read(File_new(name.val, ext.val, c.val),
                                             c.pos)

\* n more elements of a Vec<File>, appended to acc.
RECURSIVE read_Files(_, _, _, _)
read_Files(b, pos, n, acc) ==
    IF n = 0 THEN Read(acc, pos)
    ELSE LET f == read_File(b, pos)
         IN  IF f.ok THEN read_Files(b, f.pos, n - 1, Append(acc, f.val))
             ELSE Fail

from_slice(b) ==
    LET n == read_array_len(b, 1)
    IN  IF ~n.ok \/ n.val # 1 THEN Fail
        ELSE LET m == read_array_len(b, n.pos)
             IN  IF m.ok THEN read_Files(b, m.pos, m.val, << >>) ELSE Fail

(***************************************************************************)
(* get_fs and save_fs                                                      *)
(***************************************************************************)
NoFile == [exists |-> FALSE, bytes |-> << >>]
FileOf(bytes) == [exists |-> TRUE, bytes |-> bytes]

get_fs(d) ==
    IF d.exists
    THEN LET r == from_slice(d.bytes)
         IN  IF r.ok THEN Ok(r.val)
             ELSE Err("vault in current directory is invalid")
    ELSE Err("no vault in current directory")

\* process::exit(1)
Exit == [tag |-> "exit", val |-> 1]

\* What a failed fs::write can leave behind: the file as it was when it could
\* not be opened, else a truncated file holding the first k bytes.
FailedWrites(d, bytes) ==
    {d} \cup {FileOf(SubSeq(bytes, 1, k)) : k \in {0, Len(bytes) \div 2}}

\* save_fs that keeps the files of the container that f has no file for.
save_fs_merging(f, d) ==
    LET cur == get_fs(d)
        kept == IF cur.tag = "Ok"
                THEN SelectSeq(cur.val,
                         LAMBDA x : ~file_exists(f, x.name, x.extension))
                ELSE << >>
    IN  {[ret |-> Ok(Unit), disk |-> FileOf(to_vec(kept \o f))]}
            \cup {[ret |-> Exit, disk |-> w] : w \in FailedWrites(d, to_vec(f))}

\* The outcomes of save_fs(&f): what it returns and the file afterwards.
save_fs(f, d) ==
    LET bytes == to_vec(f)
    IN  {[ret |-> Ok(Unit), disk |-> FileOf(bytes)]}
            \cup {[ret |-> Exit, disk |-> w] : w \in FailedWrites(d, bytes)}

(***************************************************************************)
(* Spec: a caller of the FileSystem methods.                               *)
(***************************************************************************)
NoCall == [op |-> "new"]

Init ==
    /\ files = FileSystem_new
    /\ call = NoCall
    /\ ret = Ok(Unit)
    /\ old = FileSystem_new
    /\ disk = NoFile
    /\ NoInvocation

Alive == ret.tag \notin {"panic", "exit"}

CallAddFile(file, overwrite) ==
    /\ Alive
    /\ Len(files) < MaxFiles \/ file_exists(files, file.name, file.extension)
    /\ LET r == add_file(files, file, overwrite)
       IN  /\ files' = r.files
           /\ ret' = r.ret
    /\ call' = [op |-> "add_file", file |-> file, overwrite |-> overwrite]
    /\ old' = files
    /\ UNCHANGED disk
    /\ UNCHANGED cliVars

CallDeleteFile(file_name, file_ext) ==
    /\ Alive
    /\ LET r == delete_file(files, file_name, file_ext)
       IN  /\ files' = r.files
           /\ ret' = r.ret
    /\ call' = [op |-> "delete_file", name |-> file_name, extension |-> file_ext]
    /\ old' = files
    /\ UNCHANGED disk
    /\ UNCHANGED cliVars

CallGetFile(file_name, file_ext) ==
    /\ Alive
    /\ ret' = get_file(files, file_name, file_ext)
    /\ files' = files
    /\ call' = [op |-> "get_file", name |-> file_name, extension |-> file_ext]
    /\ old' = files
    /\ UNCHANGED disk
    /\ UNCHANGED cliVars

CallFileExists(file_name, file_ext) ==
    /\ Alive
    /\ ret' = Ok(file_exists(files, file_name, file_ext))
    /\ files' = files
    /\ call' = [op |-> "file_exists", name |-> file_name, extension |-> file_ext]
    /\ old' = files
    /\ UNCHANGED disk
    /\ UNCHANGED cliVars

Next ==
    \/ \E file \in Files, overwrite \in BOOLEAN : CallAddFile(file, overwrite)
    \/ \E n \in Names, e \in Extensions : CallDeleteFile(n, e)
    \/ \E n \in Names, e \in Extensions : CallGetFile(n, e)
    \/ \E n \in Names, e \in Extensions : CallFileExists(n, e)

Spec == Init /\ [][Next]_vars

(***************************************************************************)
(* SpecPersist: a caller that holds any FileSystem of the bounded size     *)
(* (any Vec<File>, duplicate keys included) and calls save_fs and get_fs.  *)
(***************************************************************************)
\* The files a saved FileSystem is made of: Files and a file of several bytes.
SavedFiles == Files \cup {File_new("a", "txt", <<128, 127, 128>>)}

InitPersist ==
    /\ files \in SeqsUpTo(SavedFiles, MaxFiles)
    /\ call = NoCall
    /\ ret = Ok(Unit)
    /\ old = files
    /\ disk = NoFile
    /\ NoInvocation

CallSaveFs ==
    /\ Alive
    /\ \E r \in save_fs(files, disk) :
          /\ ret' = r.ret
          /\ disk' = r.disk
    /\ call' = [op |-> "save_fs"]
    /\ old' = files
    /\ UNCHANGED files
    /\ UNCHANGED cliVars

\* let fs = get_fs(): the result is the caller's to keep.
CallGetFs ==
    /\ Alive
    /\ ret' = get_fs(disk)
    /\ call' = [op |-> "get_fs"]
    /\ old' = files
    /\ UNCHANGED <<files, disk>>
    /\ UNCHANGED cliVars

NextPersist ==
    \/ CallSaveFs
    \/ CallGetFs

SpecPersist == InitPersist /\ [][NextPersist]_vars

(***************************************************************************)
(* fn main: the command line.  Two invocations of the command run against  *)
(* the same working directory; each step below is one access to the file   *)
(* system or the computation between two accesses.                         *)
(***************************************************************************)
\* A printed line: the text with the values formatted into it.
Line(text, with) == [text |-> text, with |-> with]

\* The working directory besides vault.vault: the files with their bytes and
\* the directories with their entries.
LocalFiles == {"a.txt", "README", "dir/b.txt", "dir/sub/a.md", "report.pdf"}
LocalDirs == {"dir", "dir/sub"}

is_file(path) == path \in LocalFiles
is_dir(path) == path \in LocalDirs

LocalContent(path) ==
    CASE path = "a.txt" -> <<127>>
      [] path = "dir/b.txt" -> << >>
      [] path = "dir/sub/a.md" -> <<128>>
      [] path = "README" -> <<127, 128>>
      [] path = "report.pdf" -> shell.report

DirEntries(dir) ==
    CASE dir = "dir" -> {"dir/b.txt", "dir/sub"}
      [] dir = "dir/sub" -> {"dir/sub/a.md"}

\* PathBuf::file_stem and PathBuf::extension of the paths of the model.
PathBuf_file_stem(path) ==
    CASE path \in {"a.txt", "a.md", "dir/sub/a.md"} -> "a"
      [] path \in {"b.txt", "dir/b.txt"} -> "b"
      [] path = "hello.txt" -> "hello"
      [] path = "report.pdf" -> "report"
      [] OTHER -> path

NoExtension == {"README", "dir", "nothing"}

PathBuf_extension(path) ==
    CASE path \in {"a.txt", "b.txt", "dir/b.txt", "hello.txt"} -> "txt"
      [] path \in {"a.md", "dir/sub/a.md"} -> "md"
      [] path = "report.pdf" -> "pdf"

\* Ok((file_name, file_ext)), or the process exits with "invalid file".
file_name_and_ext_from_string(string) ==
    IF string \in NoExtension
    THEN Exit
    ELSE Ok(<<PathBuf_file_stem(string), PathBuf_extension(string)>>)

\* The orders in which fs::read_dir can yield the entries of a directory.
Orders(S) ==
    {o \in [1..Cardinality(S) -> S] :
        \A i, j \in DOMAIN o : i # j => o[i] # o[j]}

\* The values get_files_from_dir(dir) can return: the files below dir, a
\* directory's files in the place of the directory.
RECURSIVE get_files_from_dir(_), walk_entries(_)
walk_entries(entries) ==
    IF entries = << >> THEN {<< >>}
    ELSE LET here == IF is_file(Head(entries))
                     THEN {<<Head(entries)>>}
                     ELSE get_files_from_dir(Head(entries))
         IN  {h \o t : h \in here, t \in walk_entries(Tail(entries))}

get_files_from_dir(dir) ==
    UNION {walk_entries(o) : o \in Orders(DirEntries(dir))}

\* The welcome file of init.  The model keeps the first 17 bytes of its text,
\* "welcome to vault!": more than the 15 elements a fixarray takes.
WelcomeBytes ==
    <<119, 101, 108, 99, 111, 109, 101, 32, 116, 111, 32, 118, 97, 117, 108,
      116, 33>>

HelloFile == File_new("hello", "txt", WelcomeBytes)

\* File::display
display(file) == <<file.name, file.extension, Len(file.content)>>

pluralize(num) == IF num = 0 THEN "s" ELSE IF num = 1 THEN "" ELSE "s"

(***************************************************************************)
(* The command lines of the model.                                         *)
(***************************************************************************)
Targets == {"a.txt", "a.md", "hello.txt", "README", NoArg}
AddPaths == {"a.txt", "README", "dir", "nothing", NoArg}

AddArgvs ==
    [cmd : {"add"}, path : AddPaths, force : BOOLEAN, empty : {FALSE}]
TargetArgvs ==
    [cmd : {"export", "cat", "rm"}, path : Targets,
     force : {FALSE}, empty : {FALSE}]
LsArgvs == [cmd : {"ls"}, path : {NoArg}, force : {FALSE}, empty : {FALSE}]
InitArgvs ==
    [cmd : {"init"}, path : {NoArg}, force : BOOLEAN, empty : BOOLEAN]
\* help, a word that is no command, and no word at all
OtherArgvs ==
    [cmd : {"help", "bogus", NoArg}, path : {NoArg},
     force : {FALSE}, empty : {FALSE}]

LoadingArgvs == AddArgvs \cup TargetArgvs \cup LsArgvs

(***************************************************************************)
(* Steps of main.                                                          *)
(***************************************************************************)
\* An access to vault.vault: whether it succeeded, the FileSystem read or
\* written, the number of writes of the file before it, and whether the file
\* existed then.
Access(op, ok, f) ==
    [op |-> op, ok |-> ok, epoch |-> epoch, fs |-> f, exists |-> disk.exists]

\* println! of lines, then the end of the process with the exit code.
ExitWith(p, code, lines) ==
    /\ pc' = [pc EXCEPT ![p] = "done"]
    /\ status' = [status EXCEPT ![p] = code]
    /\ out' = [out EXCEPT ![p] = out[p] \o lines]
    /\ fs' = [fs EXCEPT ![p] = FileSystem_new]
    /\ todo' = [todo EXCEPT ![p] = << >>]

\* println! of lines, main goes on at the place `at` with the FileSystem f.
GoOn(p, at, f, lines) ==
    /\ pc' = [pc EXCEPT ![p] = at]
    /\ fs' = [fs EXCEPT ![p] = f]
    /\ out' = [out EXCEPT ![p] = out[p] \o lines]
    /\ UNCHANGED status

\* main with help, with an unknown command or with no command.
Other(p, a) ==
    /\ pc[p] = "idle"
    /\ a \in OtherArgvs
    /\ argv' = [argv EXCEPT ![p] = a]
    /\ IF a.cmd = NoArg
       THEN ExitWith(p, 1, <<Line("no command provided", << >>)>>)
       ELSE IF a.cmd = "help"
            THEN ExitWith(p, 0, <<Line("vault v{version} usage ...", << >>)>>)
            ELSE ExitWith(p, 1, <<Line("invalid command", << >>)>>)
    /\ UNCHANGED <<disk, io, epoch, wd>>
    /\ UNCHANGED <<callerVars, shell>>

\* get_fs_or_exit at the head of add, export, cat, rm and ls.
get_fs_or_exit(p, a) ==
    /\ pc[p] = "idle"
    /\ a.cmd \in {"add", "export", "cat", "rm", "ls"}
    /\ argv' = [argv EXCEPT ![p] = a]
    /\ LET r == get_fs(disk)
       IN  IF r.tag = "Ok"
           THEN /\ GoOn(p, "loaded", r.val, << >>)
                /\ io' = [io EXCEPT ![p] = Append(io[p], Access("load", TRUE, r.val))]
                /\ UNCHANGED todo
           ELSE /\ ExitWith(p, 1, <<Line("no vault in current directory", << >>)>>)
                /\ io' = [io EXCEPT ![p] =
                            Append(io[p],
                                   Access("load", FALSE, FileSystem_new))]
    /\ UNCHANGED <<disk, epoch, wd>>
    /\ UNCHANGED <<callerVars, shell>>

\* "add": the path argument and the files it stands for.  get_files_from_dir
\* can fail with an io::Error ("unknown error"); its return of a partial list
\* when a subdirectory cannot be read is not modelled.
AddPath(p) ==
    /\ pc[p] = "loaded"
    /\ argv[p].cmd = "add"
    /\ LET path == argv[p].path
       IN  IF path = NoArg
           THEN ExitWith(p, 1, <<Line("no file path", << >>)>>)
           ELSE IF is_file(path)
           THEN /\ GoOn(p, "adding", fs[p], << >>)
                /\ todo' = [todo EXCEPT ![p] = <<path>>]
           ELSE IF is_dir(path)
           THEN \/ \E listing \in get_files_from_dir(path) :
                     /\ GoOn(p, "adding", fs[p], << >>)
                     /\ todo' = [todo EXCEPT ![p] = listing]
                \/ ExitWith(p, 1, <<Line("unknown error", << >>)>>)
           ELSE ExitWith(p, 1,
                         <<Line("path is not a file or directory", << >>)>>)
    /\ UNCHANGED <<argv, disk, io, epoch, wd>>
    /\ UNCHANGED <<callerVars, shell>>

\* The nested add_file that reports a file it cannot add and returns.
main_add_file_reporting(path, f, force, content) ==
    LET parts == file_name_and_ext_from_string(path)
    IN  IF parts.tag # "Ok"
        THEN [exit |-> Running, lines |-> <<Line("invalid file", << >>)>>,
              fs |-> f]
        ELSE IF content.tag # "Ok"
        THEN [exit |-> Running,
              lines |-> <<Line("error reading file", << >>)>>, fs |-> f]
        ELSE LET r == add_file(f, File_new(parts.val[1], parts.val[2],
                                           content.val), force)
             IN  IF r.ret.tag = "Ok"
                 THEN [exit |-> Running,
                       lines |-> <<Line("added {}.{} to the vault",
                                        <<parts.val[1], parts.val[2]>>)>>,
                       fs |-> r.files]
                 ELSE IF r.ret.tag = "Err"
                 THEN [exit |-> Running,
                       lines |-> <<Line("file already exists", << >>)>>,
                       fs |-> r.files]
                 ELSE [exit |-> 101, lines |-> << >>, fs |-> r.files]

\* The nested fn add_file(path, fs, force) of main, with what fs::read(path)
\* gives.  exit is Running when the function returns.
main_add_file(path, f, force, content) ==
    LET parts == file_name_and_ext_from_string(path)
    IN  IF parts.tag # "Ok"
        THEN [exit |-> 1, lines |-> <<Line("invalid file", << >>)>>, fs |-> f]
        ELSE IF content.tag # "Ok"
        THEN [exit |-> 1, lines |-> <<Line("error reading file", << >>)>>,
              fs |-> f]
        ELSE LET file_name == parts.val[1]
                 file_ext == parts.val[2]
                 r == add_file(f, File_new(file_name, file_ext, content.val),
                               force)
             IN  IF r.ret.tag = "Ok"
                 THEN [exit |-> Running,
                       lines |->
                         (IF force
                          THEN <<Line("got -f or --force, overwriting existing file",
                                      << >>)>>
                          ELSE << >>)
                         \o <<Line("added {}.{} to the vault",
                                   <<file_name, file_ext>>)>>,
                       fs |-> r.files]
                 ELSE IF r.ret.tag = "Err"
                 THEN [exit |-> 1,
                       lines |-> <<Line("file already exists", << >>)>>,
                       fs |-> r.files]
                 ELSE [exit |-> 101, lines |-> << >>, fs |-> r.files]

\* "add": one call of the nested add_file, for the next path.
AddNext(p) ==
    /\ pc[p] = "adding"
    /\ todo[p] # << >>
    /\ \E content \in {Ok(LocalContent(Head(todo[p]))), Err("io")} :
         LET r == main_add_file(Head(todo[p]), fs[p], argv[p].force, content)
         IN  IF r.exit = Running
             THEN /\ GoOn(p, "adding", r.fs, r.lines)
                  /\ todo' = [todo EXCEPT ![p] = Tail(todo[p])]
             ELSE ExitWith(p, r.exit, r.lines)
    /\ UNCHANGED <<argv, disk, io, epoch, wd>>
    /\ UNCHANGED <<callerVars, shell>>

\* An "rm" that reports a failed delete_file and goes on to save_fs.
Rm_always_saves(p) ==
    /\ pc[p] = "loaded"
    /\ argv[p].cmd = "rm"
    /\ IF argv[p].path = NoArg
       THEN ExitWith(p, 1, <<Line("no file path", << >>)>>)
       ELSE LET parts == file_name_and_ext_from_string(argv[p].path)
            IN  IF parts.tag # "Ok"
                THEN ExitWith(p, 1, <<Line("invalid file", << >>)>>)
                ELSE LET r == delete_file(fs[p], parts.val[1], parts.val[2])
                     IN  /\ GoOn(p, "saving", r.files,
                                 IF r.ret.tag = "Err"
                                 THEN <<Line("file does not exist inside vault",
                                             << >>)>>
                                 ELSE << >>)
                         /\ UNCHANGED todo
    /\ UNCHANGED <<argv, disk, io, epoch, wd>>
    /\ UNCHANGED <<callerVars, shell>>

\* "rm": the path argument and delete_file.
Rm(p) ==
    /\ pc[p] = "loaded"
    /\ argv[p].cmd = "rm"
    /\ IF argv[p].path = NoArg
       THEN ExitWith(p, 1, <<Line("no file path", << >>)>>)
       ELSE LET parts == file_name_and_ext_from_string(argv[p].path)
            IN  IF parts.tag # "Ok"
                THEN ExitWith(p, 1, <<Line("invalid file", << >>)>>)
                ELSE LET r == delete_file(fs[p], parts.val[1], parts.val[2])
                     IN  IF r.ret.tag = "Err"
                         THEN ExitWith(p, 1,
                                  <<Line("file does not exist inside vault",
                                         << >>)>>)
                         ELSE /\ GoOn(p, "saving", r.files, << >>)
                              /\ UNCHANGED todo
    /\ UNCHANGED <<argv, disk, io, epoch, wd>>
    /\ UNCHANGED <<callerVars, shell>>

\* "export" and "cat" up to get_file: Ok(read_file), or the lines of the exit.
read_file(f, path) ==
    IF path = NoArg
    THEN Err(<<Line("no file path", << >>)>>)
    ELSE LET parts == file_name_and_ext_from_string(path)
         IN  IF parts.tag # "Ok"
             THEN Err(<<Line("invalid file", << >>)>>)
             ELSE LET r == get_file(f, parts.val[1], parts.val[2])
                  IN  IF r.tag = "Ok" THEN r
                      ELSE Err(<<Line("file does not exist inside vault",
                                      << >>)>>)

\* A conversion that drops the bytes that are not UTF-8.
from_utf8_lossy_dropping(v) ==
    SelectSeq(v, LAMBDA b : b < 128)

\* String::from_utf8_lossy, as the bytes of the String it gives.  The bytes
\* of the model's contents are ASCII or 0x80, which no lead byte precedes
\* there: each 0x80 is replaced by U+FFFD (ef bf bd).
from_utf8_lossy(v) ==
    Concat([i \in DOMAIN v |->
              IF v[i] < 128 THEN <<v[i]>> ELSE <<239, 191, 189>>])

Cat(p) ==
    /\ pc[p] = "loaded"
    /\ argv[p].cmd = "cat"
    /\ LET r == read_file(fs[p], argv[p].path)
       IN  IF r.tag = "Ok"
           THEN ExitWith(p, 0,
                    <<Line("{}.{}:", <<r.val.name, r.val.extension>>),
                      Line("{}", from_utf8_lossy(r.val.content))>>)
           ELSE ExitWith(p, 1, r.val)
    /\ UNCHANGED <<argv, disk, io, epoch, wd>>
    /\ UNCHANGED <<callerVars, shell>>

\* fs::write of vault-<name>.<ext> replaces the file of that name.
Exported(w, file) ==
    {x \in w : ~(x.name = file.name /\ x.extension = file.extension)}
        \cup {file}

\* An "export" that goes on to save_fs after writing the file.
Export_saving(p) ==
    /\ pc[p] = "loaded"
    /\ argv[p].cmd = "export"
    /\ LET r == read_file(fs[p], argv[p].path)
       IN  IF r.tag = "Ok"
           THEN /\ wd' = Exported(wd, r.val)
                /\ GoOn(p, "saving", fs[p],
                        <<Line("exported {}.{} to ./vault-{}.{}",
                               <<r.val.name, r.val.extension>>)>>)
                /\ UNCHANGED todo
           ELSE /\ UNCHANGED wd
                /\ ExitWith(p, 1, r.val)
    /\ UNCHANGED <<argv, disk, io, epoch>>
    /\ UNCHANGED <<callerVars, shell>>

Export(p) ==
    /\ pc[p] = "loaded"
    /\ argv[p].cmd = "export"
    /\ LET r == read_file(fs[p], argv[p].path)
       IN  IF r.tag = "Ok"
           THEN \/ /\ wd' = Exported(wd, r.val)
                   /\ ExitWith(p, 0,
                          <<Line("exported {}.{} to ./vault-{}.{}",
                                 <<r.val.name, r.val.extension>>)>>)
                \/ /\ UNCHANGED wd
                   /\ ExitWith(p, 1, <<Line("error writing", << >>)>>)
           ELSE /\ UNCHANGED wd
                /\ ExitWith(p, 1, r.val)
    /\ UNCHANGED <<argv, disk, io, epoch>>
    /\ UNCHANGED <<callerVars, shell>>

Ls(p) ==
    /\ pc[p] = "loaded"
    /\ argv[p].cmd = "ls"
    /\ ExitWith(p, 0,
           <<Line("{} file{}:",
                  <<Len(fs[p]), pluralize(Len(fs[p])),
                    [i \in DOMAIN fs[p] |-> display(fs[p][i])]>>)>>)
    /\ UNCHANGED <<argv, disk, io, epoch, wd>>
    /\ UNCHANGED <<callerVars, shell>>

\* An "init" that does not look at Path::exists.
InitVault_unchecked(p, a) ==
    /\ pc[p] = "idle"
    /\ a.cmd = "init"
    /\ argv' = [argv EXCEPT ![p] = a]
    /\ io' = [io EXCEPT ![p] =
                Append(io[p], Access("exists", disk.exists, FileSystem_new))]
    /\ GoOn(p, "saving",
            IF a.empty THEN FileSystem_new
            ELSE add_file(FileSystem_new, HelloFile, FALSE).files,
            << >>)
    /\ UNCHANGED todo
    /\ UNCHANGED <<disk, epoch, wd>>
    /\ UNCHANGED <<callerVars, shell>>

\* "init" up to save_fs: Path::exists and the new FileSystem.
InitVault(p, a) ==
    /\ pc[p] = "idle"
    /\ a.cmd = "init"
    /\ argv' = [argv EXCEPT ![p] = a]
    /\ io' = [io EXCEPT ![p] =
                Append(io[p], Access("exists", disk.exists, FileSystem_new))]
    /\ IF disk.exists /\ ~a.force
       THEN ExitWith(p, 1,
                <<Line("vault already exists in current directory", << >>)>>)
       ELSE /\ GoOn(p, "saving",
                    IF a.empty THEN FileSystem_new
                    ELSE add_file(FileSystem_new, HelloFile, FALSE).files,
                    (IF a.force
                     THEN <<Line("got -f or --force, overwriting current vault",
                                 << >>)>>
                     ELSE << >>)
                    \o (IF a.empty
                        THEN <<Line("got -e or --empty, creating empty vault",
                                    << >>)>>
                        ELSE << >>))
            /\ UNCHANGED todo
    /\ UNCHANGED <<disk, epoch, wd>>
    /\ UNCHANGED <<callerVars, shell>>

\* What main prints after save_fs.
AfterSave(cmd) ==
    CASE cmd = "rm" -> <<Line("deleted file", << >>)>>
      [] cmd = "init" -> <<Line("created a new vault in current directory", << >>)>>
      [] OTHER -> << >>

\* A main that goes on after its first save_fs and saves again.
Save_twice(p) ==
    /\ \/ pc[p] = "saving"
       \/ pc[p] = "adding" /\ todo[p] = << >>
    /\ \E r \in save_fs(fs[p], disk) :
         /\ disk' = r.disk
         /\ io' = [io EXCEPT ![p] =
                     Append(io[p], Access("save", r.ret.tag = "Ok", fs[p]))]
         /\ IF \E i \in DOMAIN io[p] : io[p][i].op = "save"
            THEN ExitWith(p, 0, AfterSave(argv[p].cmd))
            ELSE GoOn(p, "saving", fs[p], << >>) /\ UNCHANGED todo
    /\ epoch' = epoch + 1
    /\ UNCHANGED <<argv, wd>>
    /\ UNCHANGED <<callerVars, shell>>

\* save_fs(&fs) at the end of add, rm and init.
Save(p) ==
    /\ \/ pc[p] = "saving"
       \/ pc[p] = "adding" /\ todo[p] = << >>
    /\ \E r \in save_fs(fs[p], disk) :
         /\ disk' = r.disk
         /\ io' = [io EXCEPT ![p] =
                     Append(io[p], Access("save", r.ret.tag = "Ok", fs[p]))]
         /\ IF r.ret.tag = "Ok"
            THEN ExitWith(p, 0, AfterSave(argv[p].cmd))
            ELSE ExitWith(p, 1, <<Line("error writing vault", << >>)>>)
    /\ epoch' = epoch + 1
    /\ UNCHANGED <<argv, wd>>
    /\ UNCHANGED <<callerVars, shell>>

\* The containers the invocations can find: none, one that earlier
\* invocations left, or a file cut short after the first File's header.
AMd == File_new("a", "md", <<128>>)
ATxt == File_new("a", "txt", <<128>>)
BMd == File_new("b", "md", <<127>>)

CliStores ==
    {FileSystem_new, <<HelloFile>>, <<AMd>>, <<ATxt, AMd>>, <<ATxt, BMd>>}

CutShort == FileOf(SubSeq(to_vec(<<ATxt, AMd>>), 1, 3))

CliDisks == {NoFile, CutShort} \cup {FileOf(to_vec(s)) : s \in CliStores}

InitCli ==
    /\ files = FileSystem_new
    /\ call = NoCall
    /\ ret = Ok(Unit)
    /\ old = FileSystem_new
    /\ disk \in CliDisks
    /\ NoInvocation

NextCli ==
    \E p \in Procs :
        \/ \E a \in OtherArgvs : Other(p, a)
        \/ \E a \in LoadingArgvs : get_fs_or_exit(p, a)
        \/ \E a \in InitArgvs : InitVault(p, a)
        \/ AddPath(p)
        \/ AddNext(p)
        \/ Rm(p)
        \/ Cat(p)
        \/ Export(p)
        \/ Ls(p)
        \/ Save(p)

SpecCli == InitCli /\ [][NextCli]_vars

(***************************************************************************)
(* A session: one user runs command lines one after the other in a         *)
(* directory without vault.vault, each as a process of its own.            *)
(***************************************************************************)
Argv(cmd, path) == [cmd |-> cmd, path |-> path, force |-> FALSE, empty |-> FALSE]

SessionScript ==
    <<Argv("init", NoArg), Argv("add", "report.pdf"), Argv("ls", NoArg),
      Argv("export", "report.pdf"), Argv("rm", "hello.txt"),
      Argv("ls", NoArg), Argv("cat", "report.pdf")>>

\* What ./report.pdf can hold: three bytes of ASCII ("%PD"), or three bytes
\* that are not UTF-8.
ReportContents == {<<37, 80, 68>>, <<37, 128, 68>>, <<128, 128, 128>>}

InitSession ==
    /\ files = FileSystem_new
    /\ call = NoCall
    /\ ret = Ok(Unit)
    /\ old = FileSystem_new
    /\ disk = NoFile
    /\ shell \in [todo : {SessionScript}, done : {<< >>}, report : ReportContents]
    /\ pc = [p \in Procs |-> "idle"]
    /\ argv = [p \in Procs |-> NoArgv]
    /\ fs = [p \in Procs |-> FileSystem_new]
    /\ todo = [p \in Procs |-> << >>]
    /\ out = [p \in Procs |-> << >>]
    /\ status = [p \in Procs |-> Running]
    /\ io = [p \in Procs |-> << >>]
    /\ epoch = 0
    /\ wd = {}

\* What the shell keeps of a process that has ended: its command line, exit
\* status and output, and the files as it left them.
Ended(p) ==
    [argv |-> argv[p], status |-> status[p], out |-> out[p],
     disk |-> disk, wd |-> wd]

\* The shell waits for the process p to end, then starts the next command
\* line as a new process; main has not run yet.
Run(p) ==
    /\ \/ pc[p] = "done"
       \/ pc[p] = "idle" /\ argv[p] = NoArgv /\ shell.done = << >>
    /\ pc[p] = "done" \/ shell.todo # << >>
    /\ shell' = [shell EXCEPT
                   !.todo = IF @ = << >> THEN @ ELSE Tail(@),
                   !.done = IF pc[p] = "done" THEN Append(@, Ended(p)) ELSE @]
    /\ pc' = [pc EXCEPT ![p] = "idle"]
    /\ argv' = [argv EXCEPT ![p] = IF shell.todo = << >> THEN NoArgv
                                   ELSE Head(shell.todo)]
    /\ out' = [out EXCEPT ![p] = << >>]
    /\ status' = [status EXCEPT ![p] = Running]
    /\ io' = [io EXCEPT ![p] = << >>]
    /\ fs' = [fs EXCEPT ![p] = FileSystem_new]
    /\ todo' = [todo EXCEPT ![p] = << >>]
    /\ UNCHANGED <<disk, epoch, wd>>
    /\ UNCHANGED callerVars

NextSession ==
    \/ Run(1)
    \/ InitVault(1, argv[1])
    \/ get_fs_or_exit(1, argv[1])
    \/ AddPath(1)
    \/ AddNext(1)
    \/ Rm(1)
    \/ Cat(1)
    \/ Export(1)
    \/ Ls(1)
    \/ Save(1)

SpecSession == InitSession /\ [][NextSession]_vars

(***************************************************************************)
(* Properties of the FileSystem methods, checked under Spec.               *)
(***************************************************************************)
\* The key (name, extension) of a Record, and its presence in a Store.
SameKey(f, name, extension) == f.name = name /\ f.extension = extension
HasKey(s, name, extension) == \E i \in DOMAIN s : SameKey(s[i], name, extension)
WithoutKey(s, name, extension) ==
    SelectSeq(s, LAMBDA f : ~SameKey(f, name, extension))
KeyCount(s, name, extension) ==
    Cardinality({i \in DOMAIN s : SameKey(s[i], name, extension)})

\* C1: delete(K) on a Store holding K removes only the Record whose name and
\* extension both equal K; every other Record stays, with its content and in
\* the same relative order.
C1_DeletePrecision ==
    (call.op = "delete_file" /\ HasKey(old, call.name, call.extension))
        => files = WithoutKey(old, call.name, call.extension)

\* C2: from the empty Store, after any sequence of add and delete calls, no
\* two distinct Records share the same (name, extension) key.
C2_KeyUniqueness ==
    \A i, j \in DOMAIN files :
        i # j => ~SameKey(files[i], files[j].name, files[j].extension)

C2_Witness ==
    /\ call.op = "add_file" /\ call.overwrite /\ ret.tag = "Ok"
    /\ HasKey(old, call.file.name, call.file.extension)
    /\ Len(files) >= 2

\* C3: add of a Record whose key is absent succeeds, for overwrite false and
\* for overwrite true, and the Store is the previous sequence with the Record
\* appended.
C3_AddNewKey ==
    (call.op = "add_file" /\ ~HasKey(old, call.file.name, call.file.extension))
        => (ret.tag = "Ok" /\ files = Append(old, call.file))

\* C4: add(R, overwrite = false) with R's key already held fails with the
\* duplicate-key error and leaves the Store as it was.
C4_DuplicateRejected ==
    (/\ call.op = "add_file" /\ ~call.overwrite
     /\ HasKey(old, call.file.name, call.file.extension))
        => (/\ ret.tag = "Err" /\ ret.val = "file already exists"
            /\ files = old)

C4_Witness ==
    /\ call.op = "add_file" /\ ~call.overwrite
    /\ HasKey(old, call.file.name, call.file.extension)
    /\ \E i \in DOMAIN old :
          /\ SameKey(old[i], call.file.name, call.file.extension)
          /\ old[i].content # call.file.content
    /\ Len(old) >= 2

\* C5: add(R, overwrite = true) with R's key already held succeeds; afterwards
\* exactly one Record has that key, it has R's content, and it is the last
\* element of the sequence.
C5_OverwriteReplaces ==
    (/\ call.op = "add_file" /\ call.overwrite
     /\ HasKey(old, call.file.name, call.file.extension))
        => (/\ ret.tag = "Ok"
            /\ KeyCount(files, call.file.name, call.file.extension) = 1
            /\ Len(files) >= 1
            /\ files[Len(files)] = call.file)

C5_Witness ==
    /\ call.op = "add_file" /\ call.overwrite /\ ret.tag = "Ok"
    /\ Len(old) >= 2
    /\ SameKey(old[1], call.file.name, call.file.extension)
    /\ old[1].content # call.file.content

\* C6: no call of add, get or delete panics or exits the process; each
\* returns success or an explicit error value.
C6_NeverAborts == ret.tag \in {"Ok", "Err"}

\* C7: get(K) and delete(K) for a key K the Store does not hold fail with the
\* not-found error and leave the Store as it was.
C7_NotFoundNonDestructive ==
    (/\ call.op \in {"get_file", "delete_file"}
     /\ ~HasKey(old, call.name, call.extension))
        => (/\ ret.tag = "Err" /\ ret.val = "file does not exist"
            /\ files = old)

C7_Witness ==
    /\ call.op = "delete_file"
    /\ ~HasKey(old, call.name, call.extension)
    /\ \E i \in DOMAIN old : old[i].name = call.name
    /\ ret.tag = "Err"

(***************************************************************************)
(* Properties of get_fs and save_fs, checked under SpecPersist.            *)
(***************************************************************************)
\* C9: saving a Store S and then loading the container yields a Store with
\* the same Records (name, extension, content) in the same order as S.
C9_RoundTrip ==
    (call.op = "get_fs" /\ disk.exists)
        => (ret.tag = "Ok" /\ ret.val = files)

C9_Witness ==
    /\ call.op = "get_fs" /\ ret.tag = "Ok"
    /\ Len(ret.val) >= 2
    /\ ret.val[1].name = ret.val[2].name
    /\ ret.val[1].content = <<128, 127, 128>>
    /\ ret.val[2].content = << >>

(***************************************************************************)
(* Properties of the command line, checked under SpecCli.                  *)
(***************************************************************************)
Printed(p, text) == \E i \in DOMAIN out[p] : out[p][i].text = text

ItemFailures == {"file already exists", "invalid file", "error reading file"}

\* An invocation of add with a directory has ended after reporting that a
\* file of the batch could not be added.
BatchFailed(p) ==
    /\ pc[p] = "done"
    /\ argv[p].cmd = "add" /\ is_dir(argv[p].path)
    /\ \E t \in ItemFailures : Printed(p, t)

\* The keys of the files the invocation reported as added.
AddedKeys(p) ==
    {out[p][i].with : i \in {j \in DOMAIN out[p] :
                                out[p][j].text = "added {}.{} to the vault"}}

Saves(p) == {i \in DOMAIN io[p] : io[p][i].op = "save"}
Loads(p) == {i \in DOMAIN io[p] : io[p][i].op = "load"}

RECURSIVE AddAll(_, _, _)
AddAll(paths, f, force) ==
    IF paths = << >> THEN {f}
    ELSE LET r == main_add_file(Head(paths), f, force,
                                Ok(LocalContent(Head(paths))))
         IN  IF r.exit = Running THEN AddAll(Tail(paths), r.fs, force) ELSE {}

Mutated(a, f) ==
    IF a.cmd = "rm"
    THEN LET parts == file_name_and_ext_from_string(a.path)
         IN  IF parts.tag = "Ok" /\ HasKey(f, parts.val[1], parts.val[2])
             THEN {delete_file(f, parts.val[1], parts.val[2]).files}
             ELSE {}
    ELSE IF a.cmd = "add"
    THEN IF is_file(a.path) THEN AddAll(<<a.path>>, f, a.force)
         ELSE IF is_dir(a.path)
         THEN UNION {AddAll(l, f, a.force) : l \in get_files_from_dir(a.path)}
         ELSE {}
    ELSE {}

\* Invocations p and q both loaded the container before either saved it,
\* both writes succeeded, and q wrote last.
Raced(p, q) ==
    /\ p # q
    /\ argv[p].cmd \in {"add", "rm"} /\ argv[q].cmd \in {"add", "rm"}
    /\ \E lp \in Loads(p), sp \in Saves(p), lq \in Loads(q), sq \in Saves(q) :
          /\ io[p][sp].ok /\ io[q][sq].ok
          /\ io[p][lp].epoch <= io[q][sq].epoch
          /\ io[q][lq].epoch <= io[p][sp].epoch
          /\ io[p][sp].epoch < io[q][sq].epoch

LoadOf(p) == io[p][CHOOSE i \in Loads(p) : TRUE]
SaveOf(p) == io[p][CHOOSE i \in Saves(p) : TRUE]

\* C10: when two add or rm invocations both load the container before either
\* saves, nothing detects it: both end with status 0, the container is
\* exactly the Store the last saver wrote, and that Store is the last saver's
\* command applied to the container as it loaded it, without the mutation of
\* the other invocation.
C10_LastWriterWins ==
    \A p, q \in Procs :
        Raced(p, q) =>
            /\ status[p] = 0 /\ status[q] = 0
            /\ disk = FileOf(to_vec(SaveOf(q).fs))
            /\ SaveOf(q).fs \in Mutated(argv[q], LoadOf(q).fs)

C10_Witness ==
    \E p, q \in Procs :
        /\ Raced(p, q)
        /\ argv[p].cmd = "add" /\ argv[q].cmd = "rm"
        /\ \E i \in DOMAIN SaveOf(p).fs :
              /\ ~HasKey(LoadOf(p).fs, SaveOf(p).fs[i].name,
                         SaveOf(p).fs[i].extension)
              /\ ~HasKey(get_fs(disk).val, SaveOf(p).fs[i].name,
                         SaveOf(p).fs[i].extension)

\* C11: load fails as missing exactly when vault.vault does not exist and as
\* corrupt exactly when it exists but does not deserialize; a command run
\* against a corrupt container reports it as invalid, not as missing.
C11_LoadErrorKinds ==
    \A p \in Procs :
        \A i \in Loads(p) :
            /\ (~io[p][i].ok /\ ~io[p][i].exists)
                  => Printed(p, "no vault in current directory")
            /\ (~io[p][i].ok /\ io[p][i].exists)
                  => /\ Printed(p, "vault in current directory is invalid")
                     /\ ~Printed(p, "no vault in current directory")

(***************************************************************************)
(* Properties of the FileSystem methods, checked under Spec (continued).   *)
(***************************************************************************)
\* C12: for a Store holding key K, delete(K) succeeds, and afterwards
\* contains(K) is false and get(K) fails with not-found.
C12_DeleteRemovesKey ==
    (call.op = "delete_file" /\ HasKey(old, call.name, call.extension))
        => (/\ ret.tag = "Ok"
            /\ ~file_exists(files, call.name, call.extension)
            /\ ~HasKey(files, call.name, call.extension)
            /\ get_file(files, call.name, call.extension).tag = "Err"
            /\ get_file(files, call.name, call.extension).val
                  = "file does not exist")

C12_Witness ==
    /\ call.op = "delete_file"
    /\ HasKey(old, call.name, call.extension)
    /\ Len(old) >= 2
    /\ Len(files) >= 1
    /\ ret.tag = "Ok"

(***************************************************************************)
(* Properties of the commands, checked under SpecCli (continued).          *)
(***************************************************************************)
\* C13: in every invocation of a command the container is loaded at most
\* once and saved at most once, a load comes before the save, and the save is
\* the last access to the container: the process has ended after it.
C13_IoProtocol ==
    \A p \in Procs :
        /\ Cardinality(Loads(p)) <= 1
        /\ Cardinality(Saves(p)) <= 1
        /\ \A i \in Saves(p) :
              /\ i = Len(io[p])
              /\ pc[p] = "done"
              /\ \A j \in Loads(p) : j < i

C13_Witness ==
    \E p \in Procs :
        /\ pc[p] = "done" /\ status[p] = 0
        /\ argv[p].cmd \in {"add", "rm"}
        /\ Loads(p) # {} /\ Saves(p) # {}

(***************************************************************************)
(* Properties of a session, checked under SpecSession.                     *)
(***************************************************************************)
\* Every command line of the session has run and ended with status 0.
SessionDone ==
    /\ Len(shell.done) = Len(SessionScript)
    /\ \A i \in DOMAIN shell.done : shell.done[i].status = 0

Report == File_new("report", "pdf", shell.report)

\* What the session shows up to its last command: the container after init,
\* the two listings and the exported file.
SessionUpToCat ==
    LET h == shell.done
        vault == get_fs(h[1].disk)
    IN  /\ vault.tag = "Ok"
        /\ Len(vault.val) = 1
        /\ SameKey(vault.val[1], "hello", "txt")
        /\ h[3].out[1].with[1] = 2
        /\ Len(h[3].out[1].with[3]) = 2
        /\ \A x \in h[4].wd : SameKey(x, "report", "pdf") => x = Report
        /\ Report \in h[4].wd
        /\ h[6].out[1].with[1] = 1
        /\ h[6].out[1].with[3] = <<display(Report)>>
        /\ h[7].out[1].with = <<"report", "pdf">>

\* The bytes v read as text: a byte of ASCII is itself, any other byte of
\* ReportContents is shown as U+FFFD.
RECURSIVE AsText(_)
AsText(v) ==
    IF v = << >> THEN << >>
    ELSE IF Head(v) <= 127 THEN <<Head(v)>> \o AsText(Tail(v))
    ELSE <<239, 191, 189>> \o AsText(Tail(v))

C15_OverwriteFrame ==
    (/\ call.op = "add_file" /\ call.overwrite
     /\ HasKey(old, call.file.name, call.file.extension))
        => WithoutKey(files, call.file.name, call.file.extension)
             = WithoutKey(old, call.file.name, call.file.extension)

(***************************************************************************)
(* Properties of the commands, checked under SpecCli (failures, init and   *)
(* the commands that only read).                                           *)
(***************************************************************************)
\* An rm has ended on a key the vault does not hold, or an add without force
\* has ended on a key the vault holds already.
FailedMutation(p) ==
    /\ pc[p] = "done"
    /\ \/ argv[p].cmd = "rm" /\ Printed(p, "file does not exist inside vault")
       \/ /\ argv[p].cmd = "add" /\ ~argv[p].force
          /\ Printed(p, "file already exists")

\* C16: an rm of a key absent from the vault, or an add (of one file or of a
\* directory) that meets a key already there without force, ends without
\* saving: the container is what it was before the invocation, also when
\* files of the same batch had been added in memory.
C16_FailureKeepsContainer ==
    \A p \in Procs :
        FailedMutation(p) =>
            /\ status[p] = 1
            /\ Saves(p) = {}
            /\ Loads(p) # {}
            /\ epoch = LoadOf(p).epoch
                  => /\ disk = FileOf(to_vec(LoadOf(p).fs))
                     /\ get_fs(disk).tag = "Ok"
                     /\ get_fs(disk).val = LoadOf(p).fs

C16_Witness ==
    \E p \in Procs :
        /\ FailedMutation(p)
        /\ argv[p].cmd = "add" /\ is_dir(argv[p].path)
        /\ AddedKeys(p) # {}
        /\ epoch = LoadOf(p).epoch
        /\ \A k \in AddedKeys(p) : ~HasKey(get_fs(disk).val, k[1], k[2])

\* The init invocation p found vault.vault when it looked for it.
Found(p) == io[p][1].op = "exists" /\ io[p][1].ok

\* The Store init makes: the welcome file, or nothing with --empty.
Fresh(a) == IF a.empty THEN << >> ELSE <<HelloFile>>

\* What holds of an init invocation that has looked for vault.vault.
InitOutcome(p) ==
    /\ (Found(p) /\ ~argv[p].force)
          => /\ pc[p] = "done" /\ status[p] = 1
             /\ Saves(p) = {}
             /\ Printed(p, "vault already exists in current directory")
    /\ \A i \in Saves(p) :
          /\ ~Found(p) \/ argv[p].force
          /\ io[p][i].fs = Fresh(argv[p])
          /\ (io[p][i].ok /\ epoch = io[p][i].epoch + 1)
                => disk = FileOf(to_vec(Fresh(argv[p])))

\* The step in which init finds vault.vault and has no force leaves the file
\* as it is and ends the process.
InitRefusal(p) ==
    (/\ pc[p] = "idle" /\ argv'[p].cmd = "init"
     /\ disk.exists /\ ~argv'[p].force)
        => (disk' = disk /\ pc'[p] = "done" /\ status'[p] = 1)

\* C17: init does not destroy a vault unless forced: when vault.vault exists
\* and neither -f nor --force is given, init fails and the file is unchanged;
\* the file is replaced by a fresh Store (the Record hello.txt, or no Record
\* with --empty) only when it did not exist or force was given.
C17_InitKeepsVault ==
    /\ [](\A p \in Procs :
            (argv[p].cmd = "init" /\ io[p] # << >>) => InitOutcome(p))
    /\ [][\A p \in Procs : InitRefusal(p)]_vars

C17_Witness ==
    \E p, q \in Procs :
        /\ argv[p].cmd = "init" /\ argv[q].cmd = "init"
        /\ pc[p] = "done" /\ pc[q] = "done"
        /\ Found(p) /\ ~argv[p].force /\ status[p] = 1
        /\ Found(q) /\ argv[q].force /\ status[q] = 0
        /\ disk = FileOf(to_vec(Fresh(argv[q])))

ReadOnly == {"ls", "cat", "export"}

\* An invocation of ls, cat or export has no save among its accesses, and
\* vault.vault is what it loaded as long as no other invocation wrote.
NoWriteBy(p) ==
    /\ Saves(p) = {}
    /\ (Loads(p) # {} /\ LoadOf(p).ok /\ epoch = LoadOf(p).epoch)
          => disk = FileOf(to_vec(LoadOf(p).fs))
    /\ pc[p] = "loaded" => fs[p] = LoadOf(p).fs

\* C18: ls, cat and export, successful or failing with not-found, never write
\* the container: every step of such an invocation leaves vault.vault as it
\* is; and get, contains and list leave the Store in memory unchanged.
C18_ReadOnly ==
    /\ [](\A p \in Procs : argv[p].cmd \in ReadOnly => NoWriteBy(p))
    /\ [](call.op \in {"get_file", "file_exists"} => files = old)
    /\ [][\A p \in Procs :
            (argv'[p].cmd \in ReadOnly /\ pc'[p] # pc[p]) => disk' = disk]_vars

C18_Witness ==
    \E p, q \in Procs :
        /\ argv[p].cmd = "export" /\ pc[p] = "done" /\ status[p] = 0
        /\ wd # {}
        /\ argv[q].cmd = "cat" /\ pc[q] = "done" /\ status[q] = 1
        /\ Printed(q, "file does not exist inside vault")
        /\ epoch = 0 /\ disk = FileOf(to_vec(LoadOf(p).fs))

====
